---- MODULE Spec2Model ----
(***************************************************************************)
(* Model of the two generate_sitemap functions of film_press_monitoring    *)
(* (src/main.py and src/generate_sitemap.py).                              *)
(*                                                                         *)
(* A string is a sequence of symbols.  The alphabet is a small set of      *)
(* symbols ("https:", "/", "www.kino.de", "news", "..", "[", ...), each    *)
(* standing for the characters it spells; concatenation, prefix test,      *)
(* substring test and split are the usual operations on sequences.         *)
(***************************************************************************)
EXTENDS Integers, Sequences, FiniteSets, TLC

\* ---------------------------------------------------------------- bounds
MaxAnchors == 3
MaxCap == 2

\* ------------------------------------------------------------- strings
startswith(s, p) == Len(s) >= Len(p) /\ SubSeq(s, 1, Len(p)) = p

Contains(s, sub) ==
    \E k \in 1..(Len(s) - Len(sub) + 1) : SubSeq(s, k, k + Len(sub) - 1) = sub

RECURSIVE SplitAcc(_, _, _)
SplitAcc(s, cur, acc) ==
    IF s = <<>> THEN Append(acc, cur)
    ELSE IF Head(s) = "/" THEN SplitAcc(Tail(s), <<>>, Append(acc, cur))
    ELSE SplitAcc(Tail(s), Append(cur, Head(s)), acc)

split(s) == SplitAcc(s, <<>>, <<>>)

RECURSIVE join(_)
join(segs) ==
    IF segs = <<>> THEN <<>>
    ELSE IF Len(segs) = 1 THEN segs[1]
    ELSE segs[1] \o <<"/">> \o join(Tail(segs))

\* ------------------------------------------------- urllib.parse.urljoin
SchemeSymbols == {"https:", "http:"}
uses_relative == {<<>>, <<"https:">>, <<"http:">>}
uses_netloc == {<<>>, <<"https:">>, <<"http:">>}

RECURSIVE SplitNetlocAt(_, _)
SplitNetlocAt(url, acc) ==
    IF url = <<>> \/ Head(url) = "/" THEN [netloc |-> acc, rest |-> url]
    ELSE SplitNetlocAt(Tail(url), Append(acc, Head(url)))

HasSym(s, c) == \E k \in 1..Len(s) : s[k] = c

urlsplit(url, scheme) ==
    LET hasScheme == url # <<>> /\ Head(url) \in SchemeSymbols
        sch == IF hasScheme THEN <<Head(url)>> ELSE scheme
        u1 == IF hasScheme THEN Tail(url) ELSE url
        hasNet == Len(u1) >= 2 /\ SubSeq(u1, 1, 2) = <<"/", "/">>
        nl == IF hasNet THEN SplitNetlocAt(SubSeq(u1, 3, Len(u1)), <<>>)
              ELSE [netloc |-> <<>>, rest |-> u1]
    IN [scheme |-> sch, netloc |-> nl.netloc, path |-> nl.rest]

urlsplitRaises(url) ==
    LET nl == urlsplit(url, <<>>).netloc
    IN (HasSym(nl, "[") /\ ~HasSym(nl, "]")) \/ (HasSym(nl, "]") /\ ~HasSym(nl, "["))

urlunparse(scheme, netloc, path) ==
    LET needNet == netloc # <<>> \/
                   (scheme # <<>> /\ scheme \in uses_netloc /\
                    ~startswith(path, <<"/", "/">>))
        u1 == IF needNet
              THEN <<"/", "/">> \o netloc \o
                   (IF path # <<>> /\ Head(path) # "/" THEN <<"/">> \o path ELSE path)
              ELSE path
    IN IF scheme # <<>> THEN scheme \o u1 ELSE u1

RECURSIVE FilterNonEmpty(_)
FilterNonEmpty(segs) ==
    IF segs = <<>> THEN <<>>
    ELSE IF Head(segs) = <<>> THEN FilterNonEmpty(Tail(segs))
    ELSE <<Head(segs)>> \o FilterNonEmpty(Tail(segs))

FilterMiddle(segs) ==
    IF Len(segs) <= 2 THEN segs
    ELSE <<segs[1]>> \o FilterNonEmpty(SubSeq(segs, 2, Len(segs) - 1))
         \o <<segs[Len(segs)]>>

RECURSIVE ResolveSegs(_, _)
ResolveSegs(segs, resolved) ==
    IF segs = <<>> THEN resolved
    ELSE IF Head(segs) = <<"..">>
         THEN ResolveSegs(Tail(segs),
                  IF resolved = <<>> THEN resolved
                  ELSE SubSeq(resolved, 1, Len(resolved) - 1))
    ELSE IF Head(segs) = <<".">> THEN ResolveSegs(Tail(segs), resolved)
    ELSE ResolveSegs(Tail(segs), Append(resolved, Head(segs)))

urljoin(base, url) ==
    IF base = <<>> THEN url
    ELSE IF url = <<>> THEN base
    ELSE
    LET b == urlsplit(base, <<>>)
        u == urlsplit(url, b.scheme)
    IN IF u.scheme # b.scheme \/ u.scheme \notin uses_relative THEN url
       ELSE IF u.scheme \in uses_netloc /\ u.netloc # <<>>
            THEN urlunparse(u.scheme, u.netloc, u.path)
       ELSE IF u.path = <<>> THEN urlunparse(u.scheme, b.netloc, b.path)
       ELSE
       LET bp0 == split(b.path)
           base_parts == IF bp0[Len(bp0)] # <<>>
                         THEN SubSeq(bp0, 1, Len(bp0) - 1) ELSE bp0
           segments == IF Head(u.path) = "/" THEN split(u.path)
                       ELSE FilterMiddle(base_parts \o split(u.path))
           r0 == ResolveSegs(segments, <<>>)
           last == segments[Len(segments)]
           resolved_path == IF last \in {<<".">>, <<"..">>}
                            THEN Append(r0, <<>>) ELSE r0
           p == IF join(resolved_path) = <<>> THEN <<"/">>
                ELSE join(resolved_path)
       IN urlunparse(u.scheme, b.netloc, p)

urljoinRaises(base, url) ==
    base # <<>> /\ url # <<>> /\ (urlsplitRaises(base) \/ urlsplitRaises(url))

\* ------------------------------------------------------------ constants
base_domain == <<"https:", "/", "/", "www.kino.de">>
NewsMarker == <<"/", "news", "/">>

\* ---------------------------------------------------------------- inputs
\* hrefs an anchor of the seed page may carry
Hrefs == {
    <<"/", "news", "/", "a">>,
    <<"other", "/", "..", "/", "news", "/", "a">>,
    <<"/", "news", "/", "c">>,
    <<"/", "other", "/", "b">>,
    <<"/", "news", "/", "..", "/", "other", "/", "b">>,
    <<"https:", "/", "/", "other.com", "/", "news", "/", "x">>,
    <<"/", "/", "[">> }

NoHref == [has_href |-> FALSE, href |-> <<>>]
Anchors == {[has_href |-> TRUE, href |-> h] : h \in Hrefs} \cup {NoHref}
Pages == UNION {[1..n -> Anchors] : n \in 0..MaxAnchors}
CapValues == (-1)..MaxCap
FetchOutcomes == {"ok", "network_error", "http_error"}
ParseOutcomes == {"ok", "raises"}

\* soup.find_all('a', href=True): the hrefs of the anchors that have one
RECURSIVE find_all_href(_)
find_all_href(as) ==
    IF as = <<>> THEN <<>>
    ELSE IF Head(as).has_href THEN <<Head(as).href>> \o find_all_href(Tail(as))
    ELSE find_all_href(Tail(as))

\* ----------------------------------------------------------------- state
VARIABLES
    page,          \* anchors of the seed page, in document order
    max_articles,  \* the max_articles argument
    fetch,         \* outcome of the single HTTP GET of start_url
    parse,         \* outcome of BeautifulSoup(response.text, 'html.parser')
    pcM, linksM, iM, full_urlM, visitedM, sitemapM, resultM, excM,  \* main.py
    pcG, linksG, iG, full_urlG, visitedG, sitemapG, resultG, excG   \* generate_sitemap.py

envVars == <<page, max_articles, fetch, parse>>
varsM == <<pcM, linksM, iM, full_urlM, visitedM, sitemapM, resultM, excM>>
varsG == <<pcG, linksG, iG, full_urlG, visitedG, sitemapG, resultG, excG>>
vars == <<envVars, varsM, varsG>>

Terminal == {"done", "raised"}
ParserExceptions == {"ParserRejectedMarkup", "ValueError"}

Init ==
    /\ page \in Pages
    /\ max_articles \in CapValues
    /\ fetch \in FetchOutcomes
    /\ parse \in ParseOutcomes
    /\ pcM = "get" /\ linksM = <<>> /\ iM = 0 /\ full_urlM = <<>>
    /\ visitedM = {} /\ sitemapM = <<>> /\ resultM = <<>> /\ excM = "none"
    /\ pcG = "get" /\ linksG = <<>> /\ iG = 0 /\ full_urlG = <<>>
    /\ visitedG = {} /\ sitemapG = <<>> /\ resultG = <<>> /\ excG = "none"

\* ------------------------------------------- conditions shared by both
GetRaises(f) == f = "network_error"

\* faulty variant: the status of the response is never checked
RaiseForStatusRaises_Never(f) == FALSE

RaiseForStatusRaises(f) == f = "http_error"

\* ------------------------------------------------------------- main.py
\* faulty variant: the visited test is dropped from the condition
M_Accept_NoVisited(url, visited) ==
    startswith(url, base_domain) /\ Contains(url, NewsMarker)

M_Accept(url, visited) ==
    startswith(url, base_domain) /\ Contains(url, NewsMarker) /\ url \notin visited

\* faulty variant: the accepted URL is not recorded
M_AddVisited_Forgot(visited, url) == visited

M_AddVisited(visited, url) == visited \cup {url}

\* faulty variant: off-by-one cap test
M_CapReached_Strict(sitemap, cap) == Len(sitemap) > cap

M_CapReached(sitemap, cap) == Len(sitemap) >= cap

M_ExceptReturn(sitemap) == <<>>

M_Get ==
    /\ pcM = "get"
    /\ IF GetRaises(fetch)
       THEN pcM' = "except" /\ excM' = "RequestException"
       ELSE pcM' = "status" /\ excM' = excM
    /\ UNCHANGED <<envVars, varsG, linksM, iM, full_urlM, visitedM, sitemapM, resultM>>

M_RaiseForStatus ==
    /\ pcM = "status"
    /\ IF RaiseForStatusRaises(fetch)
       THEN pcM' = "except" /\ excM' = "RequestException"
       ELSE pcM' = "parse" /\ excM' = excM
    /\ UNCHANGED <<envVars, varsG, linksM, iM, full_urlM, visitedM, sitemapM, resultM>>

M_Parse ==
    /\ pcM = "parse"
    /\ IF parse = "raises"
       THEN pcM' = "raised" /\ excM' = "ParserRejectedMarkup"
            /\ UNCHANGED <<linksM, iM>>
       ELSE pcM' = "for" /\ excM' = excM
            /\ linksM' = find_all_href(page) /\ iM' = 1
    /\ UNCHANGED <<envVars, varsG, full_urlM, visitedM, sitemapM, resultM>>

M_For ==
    /\ pcM = "for"
    /\ pcM' = IF iM > Len(linksM) THEN "print" ELSE "join"
    /\ UNCHANGED <<envVars, varsG, linksM, iM, full_urlM, visitedM, sitemapM, resultM, excM>>

M_Join ==
    /\ pcM = "join"
    /\ IF urljoinRaises(base_domain, linksM[iM])
       THEN pcM' = "raised" /\ excM' = "ValueError" /\ UNCHANGED full_urlM
       ELSE pcM' = "test" /\ excM' = excM
            /\ full_urlM' = urljoin(base_domain, linksM[iM])
    /\ UNCHANGED <<envVars, varsG, linksM, iM, visitedM, sitemapM, resultM>>

M_Test ==
    /\ pcM = "test"
    /\ IF M_Accept(full_urlM, visitedM)
       THEN pcM' = "add" /\ iM' = iM
       ELSE pcM' = "for" /\ iM' = iM + 1
    /\ UNCHANGED <<envVars, varsG, linksM, full_urlM, visitedM, sitemapM, resultM, excM>>

M_Add ==
    /\ pcM = "add"
    /\ visitedM' = M_AddVisited(visitedM, full_urlM)
    /\ pcM' = "append"
    /\ UNCHANGED <<envVars, varsG, linksM, iM, full_urlM, sitemapM, resultM, excM>>

M_Append ==
    /\ pcM = "append"
    /\ sitemapM' = Append(sitemapM, full_urlM)
    /\ pcM' = "cap"
    /\ UNCHANGED <<envVars, varsG, linksM, iM, full_urlM, visitedM, resultM, excM>>

M_Cap ==
    /\ pcM = "cap"
    /\ IF M_CapReached(sitemapM, max_articles)
       THEN pcM' = "print" /\ iM' = iM
       ELSE pcM' = "for" /\ iM' = iM + 1
    /\ UNCHANGED <<envVars, varsG, linksM, full_urlM, visitedM, sitemapM, resultM, excM>>

M_Return ==
    /\ pcM = "print"
    /\ resultM' = sitemapM
    /\ pcM' = "done"
    /\ UNCHANGED <<envVars, varsG, linksM, iM, full_urlM, visitedM, sitemapM, excM>>

M_Except ==
    /\ pcM = "except"
    /\ resultM' = M_ExceptReturn(sitemapM)
    /\ pcM' = "done"
    /\ UNCHANGED <<envVars, varsG, linksM, iM, full_urlM, visitedM, sitemapM, excM>>

MainNext ==
    \/ M_Get \/ M_RaiseForStatus \/ M_Parse \/ M_For \/ M_Join \/ M_Test
    \/ M_Add \/ M_Append \/ M_Cap \/ M_Return \/ M_Except

\* -------------------------------------------------- generate_sitemap.py
\* faulty variant: only the scheme of the base is compared
is_valid_url_SchemeOnly(url, base) == url # <<>> /\ base # <<>> /\ Head(url) = Head(base)

is_valid_url(url, base) == startswith(url, base)

\* faulty variant: the visited test always passes
GS_NotVisited_Always(url, visited) == TRUE

GS_NotVisited(url, visited) == url \notin visited

GS_IsNews(url) == Contains(url, NewsMarker)

GS_AddVisited(visited, url) == visited \cup {url}

\* faulty variant: off-by-one cap test
GS_CapReached_Strict(sitemap, cap) == Len(sitemap) > cap

GS_CapReached(sitemap, cap) == Len(sitemap) >= cap

\* The second implementation is called on the same input once the first
\* call has returned or raised.
GS_Get ==
    /\ pcG = "get"
    /\ pcM \in Terminal
    /\ IF GetRaises(fetch)
       THEN pcG' = "except" /\ excG' = "RequestException"
       ELSE pcG' = "status" /\ excG' = excG
    /\ UNCHANGED <<envVars, varsM, linksG, iG, full_urlG, visitedG, sitemapG, resultG>>

GS_RaiseForStatus ==
    /\ pcG = "status"
    /\ IF RaiseForStatusRaises(fetch)
       THEN pcG' = "except" /\ excG' = "RequestException"
       ELSE pcG' = "parse" /\ excG' = excG
    /\ UNCHANGED <<envVars, varsM, linksG, iG, full_urlG, visitedG, sitemapG, resultG>>

GS_Parse ==
    /\ pcG = "parse"
    /\ IF parse = "raises"
       THEN pcG' = "raised" /\ excG' = "ParserRejectedMarkup"
            /\ UNCHANGED <<linksG, iG>>
       ELSE pcG' = "for" /\ excG' = excG
            /\ linksG' = find_all_href(page) /\ iG' = 1
    /\ UNCHANGED <<envVars, varsM, full_urlG, visitedG, sitemapG, resultG>>

GS_For ==
    /\ pcG = "for"
    /\ pcG' = IF iG > Len(linksG) THEN "return" ELSE "join"
    /\ UNCHANGED <<envVars, varsM, linksG, iG, full_urlG, visitedG, sitemapG, resultG, excG>>

GS_Join ==
    /\ pcG = "join"
    /\ IF urljoinRaises(base_domain, linksG[iG])
       THEN pcG' = "raised" /\ excG' = "ValueError" /\ UNCHANGED full_urlG
       ELSE pcG' = "test" /\ excG' = excG
            /\ full_urlG' = urljoin(base_domain, linksG[iG])
    /\ UNCHANGED <<envVars, varsM, linksG, iG, visitedG, sitemapG, resultG>>

GS_Test ==
    /\ pcG = "test"
    /\ IF is_valid_url(full_urlG, base_domain) /\ GS_NotVisited(full_urlG, visitedG)
       THEN pcG' = "news" /\ iG' = iG
       ELSE pcG' = "for" /\ iG' = iG + 1
    /\ UNCHANGED <<envVars, varsM, linksG, full_urlG, visitedG, sitemapG, resultG, excG>>

GS_NewsTest ==
    /\ pcG = "news"
    /\ IF GS_IsNews(full_urlG)
       THEN pcG' = "add" /\ iG' = iG
       ELSE pcG' = "for" /\ iG' = iG + 1
    /\ UNCHANGED <<envVars, varsM, linksG, full_urlG, visitedG, sitemapG, resultG, excG>>

GS_Add ==
    /\ pcG = "add"
    /\ visitedG' = GS_AddVisited(visitedG, full_urlG)
    /\ pcG' = "append"
    /\ UNCHANGED <<envVars, varsM, linksG, iG, full_urlG, sitemapG, resultG, excG>>

GS_Append ==
    /\ pcG = "append"
    /\ sitemapG' = Append(sitemapG, full_urlG)
    /\ pcG' = "cap"
    /\ UNCHANGED <<envVars, varsM, linksG, iG, full_urlG, visitedG, resultG, excG>>

GS_Cap ==
    /\ pcG = "cap"
    /\ IF GS_CapReached(sitemapG, max_articles)
       THEN pcG' = "return" /\ iG' = iG
       ELSE pcG' = "for" /\ iG' = iG + 1
    /\ UNCHANGED <<envVars, varsM, linksG, full_urlG, visitedG, sitemapG, resultG, excG>>

GS_Except ==
    /\ pcG = "except"
    /\ pcG' = "return"
    /\ UNCHANGED <<envVars, varsM, linksG, iG, full_urlG, visitedG, sitemapG, resultG, excG>>

GS_Return ==
    /\ pcG = "return"
    /\ resultG' = sitemapG
    /\ pcG' = "done"
    /\ UNCHANGED <<envVars, varsM, linksG, iG, full_urlG, visitedG, sitemapG, excG>>

GSNext ==
    \/ GS_Get \/ GS_RaiseForStatus \/ GS_Parse \/ GS_For \/ GS_Join \/ GS_Test
    \/ GS_NewsTest \/ GS_Add \/ GS_Append \/ GS_Cap \/ GS_Except \/ GS_Return

Next == MainNext \/ GSNext

Spec == Init /\ [][Next]_vars

TypeOK ==
    /\ pcM \in {"get", "status", "parse", "for", "join", "test", "add",
                "append", "cap", "print", "except", "done", "raised"}
    /\ pcG \in {"get", "status", "parse", "for", "join", "test", "news", "add",
                "append", "cap", "except", "return", "done", "raised"}
    /\ excM \in {"none", "RequestException"} \cup ParserExceptions
    /\ excG \in {"none", "RequestException"} \cup ParserExceptions
    /\ iM \in 0..(MaxAnchors + 1) /\ iG \in 0..(MaxAnchors + 1)

\* ------------------------------------------------ reference definitions
Range(s) == {s[k] : k \in 1..Len(s)}

NoDup(s) == \A a, b \in 1..Len(s) : a # b => s[a] # s[b]

Qualifies(url) == startswith(url, base_domain) /\ Contains(url, NewsMarker)

Resolvable(h) == ~urljoinRaises(base_domain, h)

Resolved(h) == urljoin(base_domain, h)

\* resolved URLs of the page's hrefs that are in-domain /news/ URLs, in
\* document order, repetitions kept
RECURSIVE QualifyingOf(_)
QualifyingOf(hs) ==
    IF hs = <<>> THEN <<>>
    ELSE IF Resolvable(Head(hs)) /\ Qualifies(Resolved(Head(hs)))
         THEN <<Resolved(Head(hs))>> \o QualifyingOf(Tail(hs))
    ELSE QualifyingOf(Tail(hs))

\* the elements of s in order of first occurrence
FirstOccurrences(s) ==
    LET keep == {k \in 1..Len(s) : \A j \in 1..(k - 1) : s[j] # s[k]}
        F[k \in 0..Len(s)] ==
            IF k = 0 THEN <<>>
            ELSE IF k \in keep THEN Append(F[k - 1], s[k]) ELSE F[k - 1]
    IN F[Len(s)]

Min(a, b) == IF a <= b THEN a ELSE b

DistinctQualifying == FirstOccurrences(QualifyingOf(find_all_href(page)))

Expected ==
    SubSeq(DistinctQualifying, 1, Min(max_articles, Len(DistinctQualifying)))

BothDone == pcM = "done" /\ pcG = "done"

\* ---------------------------------------------------------------- claims

\* C1: the sitemap never holds more than max_articles URLs, in every state
\* of the scan and at return, for any integer max_articles.
C1_LengthBounded ==
    /\ Len(sitemapM) <= max_articles /\ Len(resultM) <= max_articles
    /\ Len(sitemapG) <= max_articles /\ Len(resultG) <= max_articles

\* C2: with max_articles <= 0 the returned sitemap is empty whatever the
\* page contains.
C2_NonPositiveCapEmpty ==
    max_articles <= 0 =>
        /\ (pcM = "done" => resultM = <<>>)
        /\ (pcG = "done" => resultG = <<>>)

\* C3: no URL appears twice in the sitemap, in every state of the scan and
\* in the returned list.
C3_NoDuplicates ==
    /\ NoDup(sitemapM) /\ NoDup(resultM)
    /\ NoDup(sitemapG) /\ NoDup(resultG)

\* both scans went past two different hrefs that resolve to one accepted URL
C3_Witness ==
    /\ BothDone
    /\ \E a, b \in 1..Len(linksG) :
          /\ a < b /\ b < iG /\ b < iM
          /\ linksG[a] # linksG[b]
          /\ Resolvable(linksG[a]) /\ Resolvable(linksG[b])
          /\ Resolved(linksG[a]) = Resolved(linksG[b])
          /\ Resolved(linksG[a]) \in Range(resultG) \cap Range(resultM)

\* C4: every URL in the sitemap starts with the base domain and contains
\* /news/; a resolved URL failing either test is never appended.
C4_DomainAndNews ==
    \A u \in Range(sitemapM) \cup Range(resultM)
             \cup Range(sitemapG) \cup Range(resultG) :
        startswith(u, base_domain) /\ Contains(u, NewsMarker)

\* a complete scan of a page with an off-domain /news/ link and an in-domain
\* non-news link returned a non-empty sitemap
C4_Witness ==
    /\ BothDone /\ resultM # <<>> /\ resultG # <<>>
    /\ iM = Len(linksM) + 1 /\ iG = Len(linksG) + 1
    /\ \E a, b \in 1..Len(linksG) :
          /\ Resolvable(linksG[a]) /\ Resolvable(linksG[b])
          /\ ~startswith(Resolved(linksG[a]), base_domain)
          /\ Contains(Resolved(linksG[a]), NewsMarker)
          /\ startswith(Resolved(linksG[b]), base_domain)
          /\ ~Contains(Resolved(linksG[b]), NewsMarker)

\* C5: after a successful fetch with max_articles >= 1 the returned sitemap
\* is the first min(max_articles, k) distinct qualifying resolved URLs in
\* order of first occurrence; a repeated URL takes no slot.
C5_FirstDistinctQualifying ==
    (fetch = "ok" /\ max_articles >= 1) =>
        /\ (pcM = "done" => resultM = Expected)
        /\ (pcG = "done" => resultG = Expected)

\* a URL was repeated before a second distinct one, and both were returned
C5_Witness ==
    /\ BothDone /\ fetch = "ok" /\ max_articles >= 1
    /\ Len(resultM) = 2 /\ Len(resultG) = 2
    /\ LET q == QualifyingOf(find_all_href(page))
       IN Len(q) = 3 /\ q[1] = q[2] /\ q[3] # q[1]

C7_ParserFaultIsolated ==
    /\ (excM \in ParserExceptions /\ pcM \in Terminal)
           => (pcM = "done" /\ resultM = <<>>)
    /\ (excG \in ParserExceptions /\ pcG \in Terminal)
           => (pcG = "done" /\ resultG = <<>>)

\* C8: at the end of a run and after every completed accept step the
\* visited set is exactly the set of URLs in the sitemap.
C8_VisitedEqualsSitemap ==
    /\ pcM # "append" => visitedM = Range(sitemapM)
    /\ pcG # "append" => visitedG = Range(sitemapG)

\* two URLs accepted, and an in-domain non-news URL scanned and rejected
C8_Witness ==
    /\ BothDone
    /\ Cardinality(visitedM) = 2 /\ Cardinality(visitedG) = 2
    /\ \E a \in 1..Len(linksG) :
          /\ a < iG /\ a < iM
          /\ Resolvable(linksG[a])
          /\ startswith(Resolved(linksG[a]), base_domain)
          /\ ~Contains(Resolved(linksG[a]), NewsMarker)

ReachedM ==
    pcM \in {"cap", "print", "done"} /\ Len(sitemapM) >= 1
    /\ Len(sitemapM) >= max_articles

ReachedG ==
    pcG \in {"cap", "return", "done"} /\ Len(sitemapG) >= 1
    /\ Len(sitemapG) >= max_articles

\* C9: once an append makes the sitemap length reach max_articles the scan
\* stops: no later anchor is resolved or tested, and the visited set and the
\* sitemap are not modified again before return.
C9_StopsAtCap ==
    [][ /\ ReachedM => (ReachedM' /\ UNCHANGED <<iM, full_urlM, visitedM, sitemapM>>)
        /\ ReachedG => (ReachedG' /\ UNCHANGED <<iG, full_urlG, visitedG, sitemapG>>)
      ]_vars

\* both calls returned at the cap while a new qualifying anchor was still
\* ahead in the document
C9_Witness ==
    /\ BothDone /\ max_articles >= 1
    /\ Len(resultM) = max_articles /\ Len(resultG) = max_articles
    /\ iM = iG /\ iM < Len(linksM)
    /\ \E b \in (iM + 1)..Len(linksM) :
          /\ Resolvable(linksM[b])
          /\ Qualifies(Resolved(linksM[b]))
          /\ Resolved(linksM[b]) \notin Range(resultM)

====
